---- MODULE Spec2Model ----
(***************************************************************************)
(* Model of otel_query_server: the BaseDriver connection lifecycle         *)
(* (initialize / close / ensure_connected under an asyncio.Lock), the      *)
(* retry executor BaseDriver.execute_with_retry, the three-pool Cache,     *)
(* the cache_key wrapper and the DriverRegistry.                           *)
(*                                                                         *)
(* Tasks are asyncio tasks sharing one driver instance.  A step of the     *)
(* model is the code a task runs between two suspension points (await).    *)
(***************************************************************************)
EXTENDS Integers, Sequences, FiniteSets, TLC

\* ---------------------------------------------------------------- bounds
NumTasks == 2
MaxOps == 4
MaxRetries == 4
MaxCacheOps == 3
MaxTime == 3
NumCallers == 2
MaxWrapCalls == 3
MaxRegOps == 4
MaxModules == 3
MaxScans == 1

Tasks == 1..NumTasks

\* Exception kinds a hook or an operation can raise (all derive from Exception)
HookErrors == {"Exception", "RetryableError"}
HookOutcomes == {"ok"} \cup HookErrors

VARIABLES
    connected,     \* BaseDriver._connected
    lockQ,         \* BaseDriver._lock: head is the holder, the rest wait in FIFO order
    pc,            \* position of each task in the call it is running
    op,            \* the public call a task is running or ran last
    hook,          \* outcome of the hook run by the task's current/last call ("none" if not run)
    result,        \* what the task's last completed call gave its caller
    afterFail,     \* the task's current/last call started after some close() saw its hook raise
    connectCalls,  \* number of times _connect was invoked
    disconnectCalls, \* number of times _disconnect was invoked
    connectOk,     \* number of _connect executions that returned normally
    closeCalls,    \* number of close() calls started
    closeFailed,   \* some close() had its disconnect hook raise
    started,       \* number of public calls started
    \* ---- execute_with_retry
    max_retries,   \* config.max_retries
    retry_delay,   \* config.retry_delay_seconds
    rpc,           \* position in execute_with_retry
    attempt,       \* loop variable
    last_error,    \* local last_error
    history,       \* outcome of each finished invocation of func, in order
    calls,         \* number of invocations of func
    sleeps,        \* delays passed to asyncio.sleep, in order
    outcome        \* what execute_with_retry gave its caller

VARIABLES
    \* ---- Cache
    enabled,       \* Cache.enabled
    max_size,      \* CacheConfig.max_size
    ttls,          \* CacheConfig.trace_ttl_seconds / log_ttl_seconds / metric_ttl_seconds
    now,           \* the clock read by the pools (TTLCache timer)
    pools,         \* _trace_cache / _log_cache / _metric_cache: entries, least recently used first
    stats,         \* Cache.stats: hits, misses, evictions, errors
    clast,         \* the last cache call: operation, arguments, what it returned
    cops           \* number of calls made directly on the cache

VARIABLES
    \* ---- cache_key wrapper
    hasCache,      \* `hasattr(self, "_cache") and self._cache` of the wrapped object
    wrap,          \* each caller's current/last call of the wrapped operation
    wcalls,        \* number of calls of the wrapped operation started
    wlast,         \* the caller that started the last of them
    \* ---- DriverRegistry
    drivers,       \* DriverRegistry._drivers: name and DriverInfo, in insertion order
    rlast,         \* the last registry call: operation, name, what it returned or raised
    rops,          \* number of registry calls made
    removed,       \* names that were unregistered at some time
    scans          \* number of calls of auto_register_drivers made

VARIABLES
    \* ---- Cache._generate_key
    derived,       \* the last two parameter structures keyed, and their keys
    \* ---- concurrent cache calls
    clockQ,        \* Cache._lock: head is the holder, the rest wait in FIFO order
    ctask,         \* each task's position in its cache call, and the call
    spools,        \* the pools after the calls made so far, run one after another
    sstats,        \* the counters after the calls made so far, run one after another
    getsDone       \* number of get calls completed without an exception inside them

cacheVars == <<enabled, max_size, ttls, now, pools, stats, clast, cops>>

lifeVars == <<connected, lockQ, pc, op, hook, result, afterFail, connectCalls,
              disconnectCalls, connectOk, closeCalls, closeFailed, started>>
retryVars == <<max_retries, retry_delay, rpc, attempt, last_error, history,
               calls, sleeps, outcome>>
wrapVars == <<hasCache, wrap, wcalls, wlast>>
regVars == <<drivers, rlast, rops, removed, scans>>
concVars == <<clockQ, ctask, spools, sstats, getsDone>>
vars == <<lifeVars, retryVars, cacheVars, wrapVars, regVars, derived, concVars>>

\* ------------------------------------------------------------ lifecycle

\* BaseDriver.__init__
InitDriver ==
    /\ connected = FALSE
    /\ lockQ = <<>>
    /\ pc = [t \in Tasks |-> "idle"]
    /\ op = [t \in Tasks |-> "none"]
    /\ hook = [t \in Tasks |-> "none"]
    /\ result = [t \in Tasks |-> "none"]
    /\ afterFail = [t \in Tasks |-> FALSE]
    /\ connectCalls = 0
    /\ disconnectCalls = 0
    /\ connectOk = 0
    /\ closeCalls = 0
    /\ closeFailed = FALSE
    /\ started = 0

\* the property is_connected
is_connected == connected

\* asyncio.Lock: acquire queues the caller, the head of the queue holds the lock
Acquire(q, t) == Append(q, t)
Holds_Unlocked(q, t) == TRUE
Holds(q, t) == q # <<>> /\ Head(q) = t
Release(q) == Tail(q)

\* `if self._connected: return` in initialize
AlreadyConnected_Never(c) == FALSE
AlreadyConnected(c) == c

\* `if not self._connected: return` in close
AlreadyClosed_Never(c) == FALSE
AlreadyClosed(c) == ~c

\* _connected after `await self._connect()` finished with outcome o
\* (the assignment follows the await inside the try)
ConnectedAfterConnect_Eager(c, o) == TRUE
ConnectedAfterConnect(c, o) == IF o = "ok" THEN TRUE ELSE c

\* what initialize gives its caller: any Exception becomes a ConnectionError
InitializeResult(o) == IF o = "ok" THEN "ok" ELSE "ConnectionError"

\* _connected after `await self._disconnect()` finished with outcome o:
\* the assignment `self._connected = False` follows the await inside the try,
\* so it is skipped when the hook raises
ConnectedAfterDisconnect_Always(c, o) == FALSE
ConnectedAfterDisconnect(c, o) == IF o = "ok" THEN FALSE ELSE c

\* what close gives its caller: `except Exception` logs and swallows
CloseResult(o) == "ok"

\* `async with self._lock` releases on every exit of close
LockAfterClose_Leak(q, o) == IF o = "ok" THEN Release(q) ELSE q
LockAfterClose(q, o) == Release(q)

\* a call of initialize (direct or from ensure_connected) gives r to task t
InitReturn(t, r) ==
    IF op[t] = "ensure" /\ r = "ok"
    THEN /\ pc' = [pc EXCEPT ![t] = "body"]
         /\ UNCHANGED result
    ELSE /\ pc' = [pc EXCEPT ![t] = "idle"]
         /\ result' = [result EXCEPT ![t] = r]

\* a task starts a public call
Begin(t, o) ==
    /\ started < MaxOps
    /\ pc[t] = "idle"
    /\ started' = started + 1
    /\ op' = [op EXCEPT ![t] = o]
    /\ hook' = [hook EXCEPT ![t] = "none"]
    /\ result' = [result EXCEPT ![t] = "none"]
    /\ afterFail' = [afterFail EXCEPT ![t] = closeFailed]

\* initialize(): `async with self._lock` reached
CallInitialize(t) ==
    /\ Begin(t, "initialize")
    /\ lockQ' = Acquire(lockQ, t)
    /\ pc' = [pc EXCEPT ![t] = "init_lock"]
    /\ UNCHANGED <<connected, connectCalls, disconnectCalls, connectOk,
                   closeCalls, closeFailed>>

\* initialize(): lock held; return if connected, else start the connect hook
InitCheck(t) ==
    /\ pc[t] = "init_lock"
    /\ Holds(lockQ, t)
    /\ IF AlreadyConnected(connected)
       THEN /\ lockQ' = Release(lockQ)
            /\ InitReturn(t, "ok")
            /\ UNCHANGED connectCalls
       ELSE /\ pc' = [pc EXCEPT ![t] = "connecting"]
            /\ connectCalls' = connectCalls + 1
            /\ UNCHANGED <<lockQ, result>>
    /\ UNCHANGED <<connected, op, hook, afterFail, disconnectCalls, connectOk,
                   closeCalls, closeFailed, started>>

\* initialize(): `await self._connect()` finishes with outcome o
ConnectDone(t, o) ==
    /\ pc[t] = "connecting"
    /\ connected' = ConnectedAfterConnect(connected, o)
    /\ hook' = [hook EXCEPT ![t] = o]
    /\ connectOk' = IF o = "ok" THEN connectOk + 1 ELSE connectOk
    /\ lockQ' = Release(lockQ)
    /\ InitReturn(t, InitializeResult(o))
    /\ UNCHANGED <<op, afterFail, connectCalls, disconnectCalls, closeCalls,
                   closeFailed, started>>

\* close(): `async with self._lock` reached
CallClose(t) ==
    /\ Begin(t, "close")
    /\ lockQ' = Acquire(lockQ, t)
    /\ pc' = [pc EXCEPT ![t] = "close_lock"]
    /\ closeCalls' = closeCalls + 1
    /\ UNCHANGED <<connected, connectCalls, disconnectCalls, connectOk, closeFailed>>

\* close(): lock held; return if not connected, else start the disconnect hook
CloseCheck(t) ==
    /\ pc[t] = "close_lock"
    /\ Holds(lockQ, t)
    /\ IF AlreadyClosed(connected)
       THEN /\ lockQ' = Release(lockQ)
            /\ pc' = [pc EXCEPT ![t] = "idle"]
            /\ result' = [result EXCEPT ![t] = "ok"]
            /\ UNCHANGED disconnectCalls
       ELSE /\ pc' = [pc EXCEPT ![t] = "disconnecting"]
            /\ disconnectCalls' = disconnectCalls + 1
            /\ UNCHANGED <<lockQ, result>>
    /\ UNCHANGED <<connected, op, hook, afterFail, connectCalls, connectOk,
                   closeCalls, closeFailed, started>>

\* close(): `await self._disconnect()` finishes with outcome o
DisconnectDone(t, o) ==
    /\ pc[t] = "disconnecting"
    /\ connected' = ConnectedAfterDisconnect(connected, o)
    /\ hook' = [hook EXCEPT ![t] = o]
    /\ closeFailed' = (closeFailed \/ o # "ok")
    /\ lockQ' = LockAfterClose(lockQ, o)
    /\ pc' = [pc EXCEPT ![t] = "idle"]
    /\ result' = [result EXCEPT ![t] = CloseResult(o)]
    /\ UNCHANGED <<op, afterFail, connectCalls, disconnectCalls, connectOk,
                   closeCalls, started>>

\* ensure_connected(): `if not self._connected: await self.initialize()`, then yield
EnsureEnter(t) ==
    /\ Begin(t, "ensure")
    /\ IF connected
       THEN /\ pc' = [pc EXCEPT ![t] = "body"]
            /\ UNCHANGED lockQ
       ELSE /\ pc' = [pc EXCEPT ![t] = "init_lock"]
            /\ lockQ' = Acquire(lockQ, t)
    /\ UNCHANGED <<connected, connectCalls, disconnectCalls, connectOk,
                   closeCalls, closeFailed>>

\* ensure_connected(): the wrapped body finishes
BodyExit(t) ==
    /\ pc[t] = "body"
    /\ pc' = [pc EXCEPT ![t] = "idle"]
    /\ result' = [result EXCEPT ![t] = "ok"]
    /\ UNCHANGED <<connected, lockQ, op, hook, afterFail, connectCalls,
                   disconnectCalls, connectOk, closeCalls, closeFailed, started>>

\* the steps of a call already started by task t
Step(t) ==
    \/ InitCheck(t)
    \/ \E o \in HookOutcomes : ConnectDone(t, o)
    \/ CloseCheck(t)
    \/ \E o \in HookOutcomes : DisconnectDone(t, o)
    \/ BodyExit(t)

\* -------------------------------------------------- execute_with_retry

\* results and exception kinds of the operation passed to execute_with_retry
Values == {"v1", "v2"}
ErrorKinds == {"RetryableError", "QueryError", "ValueError"}
BaseDelays == {1, 2, 3}

\* `last_error = None`
NoError == [kind |-> "None", id |-> 0]
\* the exception object raised by invocation n of the operation
Err(k, n) == [kind |-> k, id |-> n]
\* BackendError("All retries failed")
AllRetriesFailed == [kind |-> "BackendError", id |-> 0]
\* asyncio.CancelledError delivered to the awaiting caller
Cancelled == [kind |-> "CancelledError", id |-> 0]

NoOutcome == [type |-> "none", val |-> "none", err |-> NoError]
Returned(v) == [type |-> "return", val |-> v, err |-> NoError]
Raised(e) == [type |-> "raise", val |-> "none", err |-> e]

\* `except RetryableError as e`
IsRetryable_Any(e) == TRUE
IsRetryable(e) == e.kind = "RetryableError"

\* `if attempt < self.config.max_retries - 1` : another iteration of range(max_retries) follows
HasNextAttempt_OffByOne(a, m) == a < m
HasNextAttempt(a, m) == a < m - 1

\* `delay = self.config.retry_delay_seconds * (2 ** attempt)`
Delay_Linear(base, a) == base * (a + 1)
Delay(base, a) == base * (2 ^ a)

\* `return await func(*args, **kwargs)`
ReturnOf_None(v) == Returned("none")
ReturnOf(v) == Returned(v)

\* `raise last_error or BackendError("All retries failed")`
FinalError_Last(e) == e
FinalError(e) == IF e # NoError THEN e ELSE AllRetriesFailed

InitRetry(ms, ds) ==
    /\ max_retries \in ms
    /\ retry_delay \in ds
    /\ rpc = "start"
    /\ attempt = 0
    /\ last_error = NoError
    /\ history = <<>>
    /\ calls = 0
    /\ sleeps = <<>>
    /\ outcome = NoOutcome

\* execute_with_retry is called: `last_error = None`, first iteration of the loop
RetryStart ==
    /\ rpc = "start"
    /\ last_error' = NoError
    /\ IF 0 < max_retries
       THEN /\ attempt' = 0
            /\ calls' = calls + 1
            /\ rpc' = "calling"
            /\ UNCHANGED outcome
       ELSE /\ rpc' = "done"
            /\ outcome' = Raised(FinalError(NoError))
            /\ UNCHANGED <<attempt, calls>>
    /\ UNCHANGED <<max_retries, retry_delay, history, sleeps>>

\* the awaited operation returns v
FuncReturns(v) ==
    /\ rpc = "calling"
    /\ history' = Append(history, [kind |-> "ok", id |-> calls, val |-> v])
    /\ rpc' = "done"
    /\ outcome' = ReturnOf(v)
    /\ UNCHANGED <<max_retries, retry_delay, attempt, last_error, calls, sleeps>>

\* the awaited operation raises an exception of kind k
FuncRaises(k) ==
    /\ rpc = "calling"
    /\ history' = Append(history, [kind |-> k, id |-> calls, val |-> "none"])
    /\ IF IsRetryable(Err(k, calls))
       THEN /\ last_error' = Err(k, calls)
            /\ IF HasNextAttempt(attempt, max_retries)
               THEN /\ sleeps' = Append(sleeps, Delay(retry_delay, attempt))
                    /\ rpc' = "sleeping"
                    /\ UNCHANGED outcome
               ELSE /\ rpc' = "done"
                    /\ outcome' = Raised(FinalError(Err(k, calls)))
                    /\ UNCHANGED sleeps
       ELSE /\ rpc' = "done"
            /\ outcome' = Raised(Err(k, calls))
            /\ UNCHANGED <<last_error, sleeps>>
    /\ UNCHANGED <<max_retries, retry_delay, attempt, calls>>

\* `await asyncio.sleep(delay)` returns: next iteration of the loop
SleepDone ==
    /\ rpc = "sleeping"
    /\ attempt' = attempt + 1
    /\ calls' = calls + 1
    /\ rpc' = "calling"
    /\ UNCHANGED <<max_retries, retry_delay, last_error, history, sleeps, outcome>>

\* what the caller sees when CancelledError is raised at an await inside the
\* try: `except RetryableError` does not match it and the loop is left
CancelOutcome_Exhausted(e) == Raised(FinalError(e))
CancelOutcome(e) == Raised(Cancelled)

\* the caller is cancelled at a suspension point: CancelledError is a
\* BaseException, caught by neither except clause
Cancel ==
    /\ rpc \in {"calling", "sleeping"}
    /\ rpc' = "done"
    /\ outcome' = CancelOutcome(last_error)
    /\ UNCHANGED <<max_retries, retry_delay, attempt, last_error, history, calls, sleeps>>

\* ---------------------------------------------------------------- Cache

\* a key is the list of its ':'-separated segments: "traces:a" is <<"traces", "a">>
CacheKeys == {<<"traces", "a">>, <<"other", "b">>, <<"plain">>,
              <<"logs", "a">>, <<"metrics", "a">>}
CacheValues == {"v1", "v2"}
\* the optional ttl argument of set: <<>> is None
TtlArgs == {<<>>, <<1>>}
PoolNames == {"traces", "logs", "metrics"}
\* configurations: max_size and the three per-category TTLs
MaxSizes == {4, 6}
TtlConfigs == {[traces |-> 3, logs |-> 2, metrics |-> 1]}

\* `key.split(":")[0]`
Prefix_Last(key) == key[Len(key)]
Prefix(key) == key[1]

\* Cache._get_cache_for_prefix
PoolOf(prefix) ==
    IF prefix = "traces" THEN "traces"
    ELSE IF prefix = "logs" THEN "logs"
    ELSE IF prefix = "metrics" THEN "metrics"
    ELSE "traces"

\* TTLCache(maxsize=config.max_size // 3, ...)
Capacity(ms) == ms \div 3

\* TTLCache(..., ttl=config.<category>_ttl_seconds): the TTL of pool p
PoolTtl_Shared(cfg, p) == cfg.traces
PoolTtl(cfg, p) == cfg[p]

\* ---- TTLCache (cachetools): a pool is a sequence of entries
\* [key, val, exp, at, ttl], least recently used first; an entry is live
\* while the clock is before its expiry time
IsLive(e, t) == t < e.exp
\* TTLCache.expire(time)
Expire(pool, t) == SelectSeq(pool, LAMBDA e : IsLive(e, t))
\* TTLCache.__contains__
Contains(pool, k, t) == \E i \in DOMAIN pool : pool[i].key = k /\ IsLive(pool[i], t)
\* TTLCache.__len__
LiveLen(pool, t) == Len(Expire(pool, t))
\* the entry stored under key k
EntryOf(pool, k) == pool[CHOOSE i \in DOMAIN pool : pool[i].key = k]
Without(pool, k) == SelectSeq(pool, LAMBDA e : e.key # k)
\* TTLCache.__getitem__ of a live key: the key becomes the most recently used
Touch(pool, k) == Append(Without(pool, k), EntryOf(pool, k))
\* TTLCache.__setitem__: expire, make room for a new key by popitem() of the
\* least recently used entry, store with expiry time + ttl
SetItem(pool, cap, e, t) ==
    LET live == Expire(pool, t)
        room == IF (\E i \in DOMAIN live : live[i].key = e.key) \/ Len(live) + 1 <= cap
                THEN Without(live, e.key)
                ELSE Tail(live)
    IN  Append(room, e)
\* TTLCache.__delitem__
DelItem(pool, k) == Without(pool, k)

\* the expiry time of an entry stored at time t in pool p by set(key, value, ttl):
\* `cache[key] = value` does not use the ttl argument
ExpiryOf(cfg, p, t, ttl) == t + PoolTtl(cfg, p)

\* a call record: operation, key (prefix for clear), value argument, what
\* the call returned, whether an exception was raised inside it
\* and, for get_stats, the dictionary returned
NoSnap == [enabled |-> FALSE,
           stats |-> [hits |-> 0, misses |-> 0, evictions |-> 0, errors |-> 0,
                      total_requests |-> 0, hit_rate |-> <<0, 1>>],
           sizes |-> [p \in PoolNames |-> 0],
           max_sizes |-> [p \in PoolNames |-> 0]]
NoCall == [op |-> "none", key |-> <<>>, arg |-> "none", ret |-> "none", fault |-> FALSE,
           snap |-> NoSnap]
Called(o, k, r, f) == [NoCall EXCEPT !.op = o, !.key = k, !.ret = r, !.fault = f]
CalledSet(k, v, f) == [NoCall EXCEPT !.op = "set", !.key = k, !.arg = v, !.fault = f]

\* Cache.__init__ with the given configurations
InitCache(ens, sizes, cfgs) ==
    /\ enabled \in ens
    /\ max_size \in sizes
    /\ ttls \in cfgs
    /\ now = 0
    /\ pools = [p \in PoolNames |-> <<>>]
    /\ stats = [hits |-> 0, misses |-> 0, evictions |-> 0, errors |-> 0]
    /\ clast = NoCall
    /\ cops = 0

\* `if not self.enabled: return ...` of get / set / delete
Disabled_Never(en) == FALSE
Disabled(en) == ~en

\* `self.stats.<counter> += 1`
Bump_Twice(st, c) == [st EXCEPT ![c] = @ + 2]
Bump(st, c) == [st EXCEPT ![c] = @ + 1]

\* `except Exception` of get / set / delete / clear: count the error, return None / False
OnFault_Silent(st) == st
OnFault(st) == Bump(st, "errors")

\* `if len(cache) >= cache.maxsize: self.stats.evictions += 1`
AtCapacity_Over(n, cap) == n > cap
AtCapacity(n, cap) == n >= cap

\* a cache call is made
CacheCall == cops < MaxCacheOps /\ cops' = cops + 1

\* time passes
Tick ==
    /\ now < MaxTime
    /\ now' = now + 1
    /\ UNCHANGED <<enabled, max_size, ttls, pools, stats, clast, cops>>

\* Cache.get(key); fault: an exception is raised inside the try
DoGet(k, fault) ==
    /\ LET p == PoolOf(Prefix(k)) IN
       IF Disabled(enabled)
       THEN /\ clast' = Called("get", k, "none", FALSE)
            /\ UNCHANGED <<pools, stats>>
       ELSE IF fault
       THEN /\ stats' = OnFault(stats)
            /\ clast' = Called("get", k, "none", TRUE)
            /\ UNCHANGED pools
       ELSE IF Contains(pools[p], k, now)
       THEN /\ stats' = Bump(stats, "hits")
            /\ clast' = Called("get", k, EntryOf(pools[p], k).val, FALSE)
            /\ pools' = [pools EXCEPT ![p] = Touch(@, k)]
       ELSE /\ stats' = Bump(stats, "misses")
            /\ clast' = Called("get", k, "none", FALSE)
            /\ UNCHANGED pools
    /\ UNCHANGED <<enabled, max_size, ttls, now>>

\* Cache.set(key, value, ttl)
DoSet(k, v, ttl, fault) ==
    /\ clast' = CalledSet(k, v, ~Disabled(enabled) /\ fault)
    /\ LET p == PoolOf(Prefix(k))
           cap == Capacity(max_size)
           e == [key |-> k, val |-> v, exp |-> ExpiryOf(ttls, p, now, ttl),
                 at |-> now, ttl |-> ttl]
       IN
       IF Disabled(enabled)
       THEN UNCHANGED <<pools, stats>>
       ELSE IF fault
       THEN /\ stats' = OnFault(stats)
            /\ UNCHANGED pools
       ELSE /\ stats' = IF AtCapacity(LiveLen(pools[p], now), cap)
                        THEN Bump(stats, "evictions") ELSE stats
            /\ pools' = [pools EXCEPT ![p] = SetItem(@, cap, e, now)]
    /\ UNCHANGED <<enabled, max_size, ttls, now>>

\* Cache.delete(key)
DoDelete(k, fault) ==
    /\ LET p == PoolOf(Prefix(k)) IN
       IF Disabled(enabled)
       THEN /\ clast' = Called("delete", k, "false", FALSE)
            /\ UNCHANGED <<pools, stats>>
       ELSE IF fault
       THEN /\ stats' = OnFault(stats)
            /\ clast' = Called("delete", k, "false", TRUE)
            /\ UNCHANGED pools
       ELSE IF Contains(pools[p], k, now)
       THEN /\ pools' = [pools EXCEPT ![p] = DelItem(@, k)]
            /\ clast' = Called("delete", k, "true", FALSE)
            /\ UNCHANGED stats
       ELSE /\ clast' = Called("delete", k, "false", FALSE)
            /\ UNCHANGED <<pools, stats>>
    /\ UNCHANGED <<enabled, max_size, ttls, now>>

\* `cache = self._get_cache_for_prefix(prefix); cache.clear()`
ClearOne_All(ps, p) == [q \in PoolNames |-> <<>>]
ClearOne(ps, p) == [ps EXCEPT ![p] = <<>>]

\* Cache.clear(prefix); <<>> is clear() without a prefix
DoClear(pre, fault) ==
    /\ clast' = Called("clear", pre, "none", fault)
    /\ IF fault
       THEN /\ stats' = OnFault(stats)
            /\ UNCHANGED pools
       ELSE /\ pools' = IF pre = <<>>
                        THEN [p \in PoolNames |-> <<>>]
                        ELSE ClearOne(pools, PoolOf(Prefix(pre)))
            /\ UNCHANGED stats
    /\ UNCHANGED <<enabled, max_size, ttls, now>>

\* CacheStats.to_dict, with CacheStats.total_requests and CacheStats.hit_rate;
\* the rate is the fraction <<numerator, denominator>>: 0.0 without requests
ToDict(st) ==
    LET total_requests == st.hits + st.misses
        hit_rate == IF total_requests = 0 THEN <<0, 1>> ELSE <<st.hits, total_requests>>
    IN  [hits |-> st.hits, misses |-> st.misses, evictions |-> st.evictions,
         errors |-> st.errors, total_requests |-> total_requests, hit_rate |-> hit_rate]
\* `len(self._<category>_cache)` in get_stats
SizeOf_Stored(pool, t) == Len(pool)
SizeOf(pool, t) == LiveLen(pool, t)

\* Cache.get_stats(): a synchronous read; len() of a TTLCache drops the
\* entries that have expired
DoGetStats ==
    /\ clast' = [Called("get_stats", <<>>, "none", FALSE) EXCEPT !.snap =
          [enabled |-> enabled,
           stats |-> ToDict(stats),
           sizes |-> [p \in PoolNames |-> SizeOf(pools[p], now)],
           max_sizes |-> [p \in PoolNames |-> Capacity(max_size)]]]
    /\ pools' = [p \in PoolNames |-> Expire(pools[p], now)]
    /\ UNCHANGED <<enabled, max_size, ttls, now, stats>>


\* ------------------------------------------------------ cache_key wrapper

Callers == 1..NumCallers
\* a value of a parameter structure: a string, an int, a datetime (each with
\* its text) or a dict, as the list of its items in insertion order
Scalar(tag, text) == [tag |-> tag, text |-> text, items |-> <<>>]
Dict(items) == [tag |-> "dict", text |-> "", items |-> items]

\* the parameter structures keyed
Params ==
    [A |-> Dict(<<<<"service", Scalar("str", "a")>>, <<"limit", Scalar("int", "1")>>>>),
     AReordered |-> Dict(<<<<"limit", Scalar("int", "1")>>, <<"service", Scalar("str", "a")>>>>),
     B |-> Dict(<<<<"service", Scalar("str", "b")>>>>),
     AText |-> Dict(<<<<"service", Scalar("str", "a")>>, <<"limit", Scalar("str", "1")>>>>),
     N |-> Dict(<<<<"filter", Dict(<<<<"x", Scalar("str", "1")>>, <<"y", Scalar("str", "2")>>>>)>>>>),
     NReordered |-> Dict(<<<<"filter", Dict(<<<<"y", Scalar("str", "2")>>, <<"x", Scalar("str", "1")>>>>)>>>>),
     NOther |-> Dict(<<<<"filter", Dict(<<<<"x", Scalar("str", "1")>>, <<"y", Scalar("str", "3")>>>>)>>>>),
     T |-> Dict(<<<<"at", Scalar("datetime", "2024-01-01 00:00:00")>>>>),
     TText |-> Dict(<<<<"at", Scalar("str", "2024-01-01 00:00:00")>>>>)]
KeyParams == {Params[n] : n \in DOMAIN Params}
\* the params the wrapped operation is called with
WrapParams == {Params.A, Params.AReordered, Params.B}
\* the prefixes of the wrapped operations: @cache_key("traces")
WrapPrefixes == {"traces"}
\* what the underlying operation returns: a value or None
FResults == CacheValues \cup {"none"}

\* the order of the dict keys as strings: "at" < "filter" < "limit" < "service" < "x" < "y"
FieldOrder(f) ==
    IF f = "at" THEN 1 ELSE IF f = "filter" THEN 2 ELSE IF f = "limit" THEN 3
    ELSE IF f = "service" THEN 4 ELSE IF f = "x" THEN 5 ELSE 6
\* json.dumps(params_dict, sort_keys=True, default=str), the JSON text of a
\* value: the items of a dict are written in the order of their keys
\* (sort_keys=True), and a value json cannot encode is written as the string
\* str(value) (default=str)
RECURSIVE JsonDumps(_)
JsonDumps(v) ==
    IF v.tag = "dict"
    THEN Dict(SortSeq([i \in DOMAIN v.items |-> <<v.items[i][1], JsonDumps(v.items[i][2])>>],
                      LAMBDA a, b : FieldOrder(a[1]) < FieldOrder(b[1])))
    ELSE Scalar(IF v.tag \in {"str", "int"} THEN v.tag ELSE "str", v.text)
\* hashlib.md5(text).hexdigest(): distinct texts of the model have distinct digests
Md5(text) ==
    IF text = Params.AReordered THEN "h1"
    ELSE IF text = Params.B THEN "h2"
    ELSE IF text = Dict(<<<<"limit", Scalar("str", "1")>>, <<"service", Scalar("str", "a")>>>>) THEN "h3"
    ELSE IF text = Params.N THEN "h4"
    ELSE IF text = Params.NOther THEN "h5"
    ELSE IF text = Params.TText THEN "h6"
    ELSE "h0"
\* Cache._generate_key: f"{prefix}:{param_hash}"
GenerateKey(pre, params) == <<pre, Md5(JsonDumps(params))>>

\* no key was derived yet
InitKey ==
    derived = [prefix |-> "none", a |-> Dict(<<>>), b |-> Dict(<<>>), ka |-> <<>>, kb |-> <<>>]

\* Cache._generate_key is applied to two parameter structures
DeriveKeys(pre, a, b) ==
    derived' = [prefix |-> pre, a |-> a, b |-> b,
                ka |-> GenerateKey(pre, a), kb |-> GenerateKey(pre, b)]

\* a call of the wrapped operation: position, derived key, what cache.get
\* gave, invocations of the underlying operation, its result, what the
\* wrapper returned, and whether the caller's previous call was of the same
\* key and got None from the underlying operation
IdleCall == [pc |-> "idle", key |-> <<>>, got |-> "none", f |-> 0,
             fres |-> "none", ret |-> "none", again |-> FALSE]
GotNone(w, k) == w.pc = "done" /\ w.key = k /\ w.f = 1 /\ w.fres = "none"

InitWrap(hs) ==
    /\ hasCache \in hs
    /\ wrap = [c \in Callers |-> IdleCall]
    /\ wcalls = 0
    /\ wlast = 0

\* `if cached_value is not None: return cached_value`
IsHit_Never(v) == FALSE
IsHit(v) == v # "none"

\* `if hasattr(self, "_cache") and self._cache and result is not None`
ShouldStore_Always(has, r) == has
ShouldStore(has, r) == has /\ r # "none"

\* wrapper(self, params) up to its first suspension inside func: derive the
\* key, look it up, return the cached value or invoke func
WrapCall(c, pre, params) ==
    /\ wrap[c].pc # "inF"
    /\ wcalls < MaxWrapCalls
    /\ wcalls' = wcalls + 1
    /\ wlast' = c
    /\ LET k == GenerateKey(pre, params)
           w == [IdleCall EXCEPT !.key = k, !.again = GotNone(wrap[c], k)]
       IN
       IF hasCache
       THEN /\ DoGet(k, FALSE)
            /\ UNCHANGED cops
            /\ wrap' = [wrap EXCEPT ![c] =
                  IF IsHit(clast'.ret)
                  THEN [w EXCEPT !.pc = "done", !.got = clast'.ret, !.ret = clast'.ret]
                  ELSE [w EXCEPT !.pc = "inF", !.f = 1]]
       ELSE /\ wrap' = [wrap EXCEPT ![c] = [w EXCEPT !.pc = "inF", !.f = 1]]
            /\ UNCHANGED cacheVars
    /\ UNCHANGED hasCache

\* func returns r: store it unless it is None, return it
FReturns(c, r) ==
    /\ wrap[c].pc = "inF"
    /\ IF ShouldStore(hasCache, r)
       THEN DoSet(wrap[c].key, r, <<>>, FALSE) /\ UNCHANGED cops
       ELSE UNCHANGED cacheVars
    /\ wrap' = [wrap EXCEPT ![c] = [@ EXCEPT !.pc = "done", !.fres = r, !.ret = r]]
    /\ UNCHANGED <<hasCache, wcalls, wlast>>

\* func raises: the exception propagates out of the wrapper
FRaises(c) ==
    /\ wrap[c].pc = "inF"
    /\ wrap' = [wrap EXCEPT ![c] = [@ EXCEPT !.pc = "done", !.fres = "raised", !.ret = "raised"]]
    /\ UNCHANGED <<hasCache, wcalls, wlast, cacheVars>>

\* ------------------------------------------------- concurrent cache calls

\* the calls the tasks make: get, set, delete of a key (two keys, both kept
\* in the traces pool), clear of everything or of one prefix, and a get that
\* raises before it reaches the lock
ConcCalls ==
    LET keys == {<<"traces", "a">>, <<"other", "b">>} IN
    {[op |-> o, key |-> k, val |-> "none", fault |-> FALSE] : o \in {"get", "delete"}, k \in keys}
    \cup {[op |-> "set", key |-> k, val |-> v, fault |-> FALSE] : k \in keys, v \in CacheValues}
    \cup {[op |-> "clear", key |-> pre, val |-> "none", fault |-> FALSE] : pre \in {<<>>, <<"traces">>}}
    \cup {[op |-> "get", key |-> <<"traces", "a">>, val |-> "none", fault |-> TRUE]}

\* the call c run alone on the pools ps and counters st: the body of get,
\* set, delete or clear, or the count of the exception
SeqApply(ps, st, c, t, ms, cfg) ==
    LET p == PoolOf(Prefix(c.key))
        e == [key |-> c.key, val |-> c.val, exp |-> ExpiryOf(cfg, p, t, <<>>),
              at |-> t, ttl |-> <<>>]
    IN
    IF c.fault THEN [pools |-> ps, stats |-> OnFault(st)]
    ELSE IF c.op = "get"
    THEN IF Contains(ps[p], c.key, t)
         THEN [pools |-> [ps EXCEPT ![p] = Touch(@, c.key)], stats |-> Bump(st, "hits")]
         ELSE [pools |-> ps, stats |-> Bump(st, "misses")]
    ELSE IF c.op = "set"
    THEN [pools |-> [ps EXCEPT ![p] = SetItem(@, Capacity(ms), e, t)],
          stats |-> IF AtCapacity(LiveLen(ps[p], t), Capacity(ms))
                    THEN Bump(st, "evictions") ELSE st]
    ELSE IF c.op = "delete"
    THEN [pools |-> IF Contains(ps[p], c.key, t) THEN [ps EXCEPT ![p] = DelItem(@, c.key)] ELSE ps,
          stats |-> st]
    ELSE [pools |-> IF c.key = <<>> THEN [q \in PoolNames |-> <<>>] ELSE ClearOne(ps, p),
          stats |-> st]

InitConc ==
    /\ clockQ = <<>>
    /\ ctask = [t \in Callers |->
                  [pc |-> "idle", call |-> [op |-> "none", key |-> <<>>, val |-> "none", fault |-> FALSE]]]
    /\ spools = [p \in PoolNames |-> <<>>]
    /\ sstats = [hits |-> 0, misses |-> 0, evictions |-> 0, errors |-> 0]
    /\ getsDone = 0

\* `async with self._lock`: the body runs in the task at the head of the lock
CacheLockHeld_Free(q, t) == TRUE
CacheLockHeld(q, t) == Holds(q, t)

\* the sequential run is extended by the call c
SeqStep(c) ==
    LET r == SeqApply(spools, sstats, c, now, max_size, ttls) IN
    /\ spools' = r.pools
    /\ sstats' = r.stats

\* a task calls the cache: an exception raised before the lock is counted
\* and the call returns; otherwise the task asks for the lock
ConcStart(t, c) ==
    /\ ctask[t].pc = "idle"
    /\ CacheCall
    /\ IF c.fault
       THEN /\ DoGet(c.key, TRUE)
            /\ SeqStep(c)
            /\ ctask' = [ctask EXCEPT ![t] = [pc |-> "idle", call |-> c]]
            /\ UNCHANGED <<clockQ, getsDone>>
       ELSE /\ clockQ' = Acquire(clockQ, t)
            /\ ctask' = [ctask EXCEPT ![t] = [pc |-> "lock", call |-> c]]
            /\ UNCHANGED <<enabled, max_size, ttls, now, pools, stats, clast>>
            /\ UNCHANGED <<spools, sstats, getsDone>>

\* the task that holds the lock runs the body of its call, which has no
\* suspension point, and releases the lock
ConcBody(t) ==
    /\ ctask[t].pc = "lock"
    /\ CacheLockHeld(clockQ, t)
    /\ LET c == ctask[t].call IN
       /\ IF c.op = "get" THEN DoGet(c.key, FALSE)
          ELSE IF c.op = "set" THEN DoSet(c.key, c.val, <<>>, FALSE)
          ELSE IF c.op = "delete" THEN DoDelete(c.key, FALSE)
          ELSE DoClear(c.key, FALSE)
       /\ SeqStep(c)
       /\ getsDone' = IF c.op = "get" THEN getsDone + 1 ELSE getsDone
    /\ clockQ' = Release(clockQ)
    /\ ctask' = [ctask EXCEPT ![t].pc = "idle"]
    /\ UNCHANGED cops

\* --------------------------------------------------------- DriverRegistry

RegNames == {"x", "y"}
\* subclasses of BaseDriver, and a class that is not one
DriverClasses == {"T1", "T2"}
\* the optional metadata argument of register: <<>> is None
MetaArgs == {<<>>, <<"given", "m1">>}

\* issubclass(driver_class, BaseDriver)
IsSubclass(cls) == cls \in DriverClasses
\* DriverInfo._extract_metadata: metadata read from the class
ExtractMetadata(cls) == <<"extracted", cls>>
\* DriverInfo(driver_class, metadata): `metadata or self._extract_metadata(driver_class)`
DriverInfo(cls, m) ==
    [driver_class |-> cls, metadata |-> IF m = <<>> THEN ExtractMetadata(cls) ELSE m]
NoInfo == [driver_class |-> "none", metadata |-> <<>>]

\* `name in cls._drivers`
Registered(d, n) == \E i \in DOMAIN d : d[i].name = n
\* cls._drivers[name]
InfoOf(d, n) ==
    IF Registered(d, n) THEN d[CHOOSE i \in DOMAIN d : d[i].name = n].info ELSE NoInfo
\* list(cls._drivers.keys())
ListOf(d) == [i \in DOMAIN d |-> d[i].name]
\* cls._drivers[name] = info: a new name is added last, a present one keeps its place
Store(d, n, info) ==
    IF Registered(d, n)
    THEN [i \in DOMAIN d |-> IF d[i].name = n THEN [name |-> n, info |-> info] ELSE d[i]]
    ELSE Append(d, [name |-> n, info |-> info])
\* del cls._drivers[name]
Remove(d, n) == SelectSeq(d, LAMBDA e : e.name # n)

\* `if name in cls._drivers: raise ValueError` of register
IsDuplicate_Never(d, n) == FALSE
IsDuplicate(d, n) == Registered(d, n)
\* `if name not in cls._drivers: raise KeyError` of unregister / get / get_info
IsMissing_Never(d, n) == FALSE
IsMissing(d, n) == ~Registered(d, n)

\* a registry call record
NoRegCall == [op |-> "none", name |-> "none", arg |-> "none", err |-> "none",
              cls |-> "none", info |-> NoInfo, names |-> <<>>, scan |-> <<>>]
RegCalled(o, n, e) == [NoRegCall EXCEPT !.op = o, !.name = n, !.err = e]
Registering(n, cls, e) == [RegCalled("register", n, e) EXCEPT !.arg = cls]

InitRegistry ==
    /\ drivers = <<>>
    /\ rlast = NoRegCall
    /\ rops = 0
    /\ removed = {}
    /\ scans = 0

RegistryCall == rops < MaxRegOps /\ rops' = rops + 1

\* DriverRegistry.register(name, driver_class, metadata)
Register(n, cls, m) ==
    /\ RegistryCall
    /\ IF IsDuplicate(drivers, n)
       THEN /\ rlast' = Registering(n, cls, "ValueError: already registered")
            /\ UNCHANGED drivers
       ELSE IF ~IsSubclass(cls)
       THEN /\ rlast' = Registering(n, cls, "ValueError: must inherit from BaseDriver")
            /\ UNCHANGED drivers
       ELSE /\ drivers' = Store(drivers, n, DriverInfo(cls, m))
            /\ rlast' = Registering(n, cls, "none")
    /\ UNCHANGED <<removed, scans>>

\* DriverRegistry.unregister(name)
Unregister(n) ==
    /\ RegistryCall
    /\ IF IsMissing(drivers, n)
       THEN /\ rlast' = RegCalled("unregister", n, "KeyError")
            /\ UNCHANGED <<drivers, removed, scans>>
       ELSE /\ drivers' = Remove(drivers, n)
            /\ removed' = removed \cup {n}
            /\ rlast' = RegCalled("unregister", n, "none")
            /\ UNCHANGED scans

\* DriverRegistry.get(name)
RegistryGet(n) ==
    /\ RegistryCall
    /\ rlast' = IF IsMissing(drivers, n)
                THEN RegCalled("get", n, "KeyError")
                ELSE [RegCalled("get", n, "none") EXCEPT !.cls = InfoOf(drivers, n).driver_class]
    /\ UNCHANGED <<drivers, removed, scans>>

\* DriverRegistry.get_info(name)
RegistryGetInfo(n) ==
    /\ RegistryCall
    /\ rlast' = IF IsMissing(drivers, n)
                THEN RegCalled("get_info", n, "KeyError")
                ELSE [RegCalled("get_info", n, "none") EXCEPT !.info = InfoOf(drivers, n)]
    /\ UNCHANGED <<drivers, removed, scans>>

\* DriverRegistry.list()
RegistryList ==
    /\ RegistryCall
    /\ rlast' = [RegCalled("list", "none", "none") EXCEPT !.names = ListOf(drivers)]
    /\ UNCHANGED <<drivers, removed, scans>>

\* ------------------------------------------------- auto_register_drivers

\* a module found by pkgutil.walk_packages: the driver class it defines and
\* the name of that driver, whether importing it raises, and whether
\* DriverRegistry.register raises for its class
ScanModules ==
    { [name |-> "x", cls |-> "T1", imp |-> "ok", reg |-> "ok"],
      [name |-> "x", cls |-> "T2", imp |-> "ok", reg |-> "ok"],
      [name |-> "y", cls |-> "T1", imp |-> "ok", reg |-> "raises"],
      [name |-> "y", cls |-> "T2", imp |-> "ImportError", reg |-> "ok"],
      [name |-> "z", cls |-> "T2", imp |-> "ok", reg |-> "ok"] }
\* the modules of a package, each once, in the order they are walked
Scans ==
    UNION {{q \in [1..n -> ScanModules] : \A i, j \in 1..n : q[i] = q[j] => i = j} :
              n \in 0..MaxModules}

\* discover_drivers: a module whose import raises is logged and skipped;
\* `discovered[driver_name] = obj` replaces the class found under the name before
RECURSIVE Discover(_, _)
Discover(mods, found) ==
    IF mods = <<>> THEN found
    ELSE LET m == Head(mods)
             put == IF \E i \in DOMAIN found : found[i].name = m.name
                    THEN [i \in DOMAIN found |-> IF found[i].name = m.name THEN m ELSE found[i]]
                    ELSE Append(found, m)
         IN  Discover(Tail(mods), IF m.imp = "ok" THEN put ELSE found)

\* DriverRegistry.register(driver_name, driver_class) raises
RegisterRaises(d, m) == IsDuplicate(d, m.name) \/ ~IsSubclass(m.cls) \/ m.reg = "raises"
\* `except Exception as e: logger.error(...)`: the loop goes on with the rest
AfterFailure_Abort(rest) == <<>>
AfterFailure(rest) == rest

\* the loop of auto_register_drivers over discovered.items()
RECURSIVE RegisterAll(_, _, _)
RegisterAll(found, d, names) ==
    IF found = <<>> THEN [drivers |-> d, names |-> names]
    ELSE LET m == Head(found) IN
         IF \E i \in DOMAIN ListOf(d) : ListOf(d)[i] = m.name   \* already in DriverRegistry.list()
         THEN RegisterAll(Tail(found), d, names)
         ELSE IF RegisterRaises(d, m)
         THEN RegisterAll(AfterFailure(Tail(found)), d, names)
         ELSE RegisterAll(Tail(found), Store(d, m.name, DriverInfo(m.cls, <<>>)),
                          Append(names, m.name))

\* auto_register_drivers(package_path)
AutoRegister(scan) ==
    /\ RegistryCall
    /\ scans < MaxScans
    /\ scans' = scans + 1
    /\ LET r == RegisterAll(Discover(scan, <<>>), drivers, <<>>) IN
       /\ drivers' = r.drivers
       /\ rlast' = [RegCalled("auto_register", "none", "none") EXCEPT
                        !.names = r.names, !.scan = scan]
    /\ UNCHANGED removed

\* ------------------------------------------------------ specifications

InitCacheIdle == InitCache({TRUE}, {6}, TtlConfigs)
\* the parts of the program a specification leaves idle
InitRest == InitWrap({TRUE}) /\ InitRegistry /\ InitKey /\ InitConc

Init == InitDriver /\ InitRetry({3}, {1}) /\ InitCacheIdle /\ InitRest

Next ==
    /\ \E t \in Tasks :
          \/ CallInitialize(t)
          \/ CallClose(t)
          \/ EnsureEnter(t)
          \/ Step(t)
    /\ UNCHANGED <<retryVars, cacheVars, wrapVars, regVars, derived, concVars>>

Spec == Init /\ [][Next]_vars

\* the event loop runs every task that is ready; hooks and bodies finish
FairSpec == Spec /\ \A t \in Tasks : WF_vars(Step(t) /\ UNCHANGED <<retryVars, cacheVars, wrapVars, regVars, derived, concVars>>)

InitR == InitDriver /\ InitRetry(-1..MaxRetries, BaseDelays) /\ InitCacheIdle /\ InitRest

NextR ==
    /\ \/ RetryStart
       \/ \E v \in Values : FuncReturns(v)
       \/ \E k \in ErrorKinds : FuncRaises(k)
       \/ SleepDone
       \/ Cancel
    /\ UNCHANGED <<lifeVars, cacheVars, wrapVars, regVars, derived, concVars>>

SpecRetry == InitR /\ [][NextR]_vars

InitC ==
    /\ InitDriver /\ InitRetry({3}, {1})
    /\ InitCache(BOOLEAN, MaxSizes, TtlConfigs)
    /\ InitRest

\* the calls made on the cache: every key without a fault; a fault does not
\* depend on the arguments, so one call of each operation is made to fault
GetInputs == {<<k, FALSE>> : k \in CacheKeys} \cup {<<<<"traces", "a">>, TRUE>>}
\* set: every key with one value, two keys (one with an unknown prefix) also
\* with a second value, two keys also with a ttl argument
SetInputs ==
    {<<k, "v1", <<>>, FALSE>> : k \in CacheKeys}
    \cup {<<k, "v2", <<>>, FALSE>> : k \in {<<"traces", "a">>, <<"other", "b">>}}
    \cup {<<k, "v1", <<1>>, FALSE>> : k \in {<<"traces", "a">>, <<"logs", "a">>}}
    \cup {<<<<"traces", "a">>, "v1", <<>>, TRUE>>}
ClearInputs ==
    {<<pre, FALSE>> : pre \in {<<>>} \cup {<<p>> : p \in PoolNames}}
    \cup {<<<<"traces">>, TRUE>>}

NextC ==
    /\ \/ Tick
       \/ \E x \in GetInputs : CacheCall /\ DoGet(x[1], x[2])
       \/ \E x \in SetInputs : CacheCall /\ DoSet(x[1], x[2], x[3], x[4])
       \/ \E x \in GetInputs : CacheCall /\ DoDelete(x[1], x[2])
       \/ \E x \in ClearInputs : CacheCall /\ DoClear(x[1], x[2])
       \/ CacheCall /\ DoGetStats
    /\ UNCHANGED <<lifeVars, retryVars, wrapVars, regVars, derived, concVars>>

SpecCache == InitC /\ [][NextC]_vars

\* the wrapped operations called by concurrent callers while time passes;
\* each pool holds one entry, so that storing one key displaces the other
InitW ==
    /\ InitDriver /\ InitRetry({3}, {1})
    /\ InitCache(BOOLEAN, {4}, TtlConfigs)
    /\ InitWrap(BOOLEAN)
    /\ InitRegistry /\ InitKey /\ InitConc

NextW ==
    /\ \/ \E c \in Callers, pre \in WrapPrefixes, params \in WrapParams : WrapCall(c, pre, params)
       \/ \E c \in Callers, r \in FResults : FReturns(c, r)
       \/ \E c \in Callers : FRaises(c)
       \/ Tick /\ UNCHANGED wrapVars
    /\ UNCHANGED <<lifeVars, retryVars, regVars, derived, concVars>>

SpecWrap == InitW /\ [][NextW]_vars

InitG == InitDriver /\ InitRetry({3}, {1}) /\ InitCacheIdle /\ InitRest

NextG ==
    /\ \/ \E n \in RegNames, cls \in DriverClasses \cup {"NotADriver"}, m \in MetaArgs : Register(n, cls, m)
       \/ \E n \in RegNames : Unregister(n)
       \/ \E n \in RegNames : RegistryGet(n)
       \/ \E n \in RegNames : RegistryGetInfo(n)
       \/ RegistryList
    /\ UNCHANGED <<lifeVars, retryVars, cacheVars, wrapVars, derived, concVars>>

SpecRegistry == InitG /\ [][NextG]_vars

\* discovery runs on a registry that holds registrations made before
NextD ==
    /\ \/ \E n \in RegNames : Register(n, "T1", <<>>)
       \/ \E scan \in Scans : AutoRegister(scan)
    /\ UNCHANGED <<lifeVars, retryVars, cacheVars, wrapVars, derived, concVars>>

SpecDiscovery == InitG /\ [][NextD]_vars

\* keys are derived for pairs of parameter structures
NextK ==
    /\ \E pre \in PoolNames, a \in KeyParams, b \in KeyParams : DeriveKeys(pre, a, b)
    /\ UNCHANGED <<lifeVars, retryVars, cacheVars, wrapVars, regVars, concVars>>

SpecKey == InitG /\ [][NextK]_vars

\* one enabled cache whose pools hold one entry each
InitConcurrent ==
    /\ InitDriver /\ InitRetry({3}, {1})
    /\ InitCache({TRUE}, {4}, TtlConfigs)
    /\ InitRest

\* tasks call the cache concurrently
NextConc ==
    /\ \/ \E t \in Callers, c \in ConcCalls : ConcStart(t, c)
       \/ \E t \in Callers : ConcBody(t)
    /\ UNCHANGED <<lifeVars, retryVars, wrapVars, regVars, derived>>

SpecConc == InitConcurrent /\ [][NextConc]_vars

\* ---------------------------------------------------------- properties

\* task t leaves the disconnect hook in this step, the hook having raised
CloseHookRaised(t) ==
    pc[t] = "disconnecting" /\ pc'[t] # "disconnecting" /\ hook'[t] \in HookErrors

\* task t leaves the connect hook in this step, the hook having raised
ConnectHookRaised(t) ==
    pc[t] = "connecting" /\ pc'[t] # "connecting" /\ hook'[t] \in HookErrors

\* C1 (as claimed): when a close() whose disconnect hook raised returns, the
\* driver is Disconnected.
C1_CloseUnconditional ==
    [][\A t \in Tasks : CloseHookRaised(t) => ~connected']_vars

\* C1 (amended): when a close() whose disconnect hook raised returns, it
\* returns normally and the driver is still Connected.
C1_CloseKeepsConnectedOnFailure ==
    [][\A t \in Tasks :
          CloseHookRaised(t) => (connected' /\ pc'[t] = "idle" /\ result'[t] = "ok")]_vars

C1_Witness ==
    \E t \in Tasks :
        op[t] = "close" /\ pc[t] = "idle" /\ hook[t] \in HookErrors /\ connected

\* C2: while a task executes the body wrapped by ensure_connected(), the
\* driver is Connected.
C2_BodyConnected ==
    \A t \in Tasks : pc[t] = "body" => connected

\* C3 (as claimed): as long as only initialize() calls were made on the
\* initially Disconnected driver, the connect hook was executed at most once.
C3_AtMostOneConnect ==
    closeCalls = 0 => connectCalls <= 1

\* C3 (amended): in a burst of initialize() calls the connect hook succeeds at
\* most once, is never running or started again once it has succeeded, and is
\* executed at most once per call.
C3_AtMostOneSuccessfulConnect ==
    closeCalls = 0 =>
        /\ connectOk <= 1
        /\ connectOk = 1 => (connected /\ \A t \in Tasks : pc[t] # "connecting")
        /\ connectCalls <= started

C3_Witness ==
    /\ closeCalls = 0
    /\ connectOk = 1
    /\ connectCalls >= 2
    /\ Cardinality({t \in Tasks : op[t] = "initialize" /\ pc[t] = "idle"}) >= 2

\* C4: initialize() on a Connected driver and close() on a Disconnected driver
\* run no hook and leave the state unchanged; initialize() calls whose hook
\* succeeds run the connect hook once in all; without any initialize() no
\* close() runs the disconnect hook.
C4_IdempotentLifecycle ==
    /\ [][\A t \in Tasks :
            /\ (pc[t] = "init_lock" /\ pc'[t] # "init_lock" /\ connected) =>
                   /\ connected'
                   /\ pc'[t] # "connecting"
                   /\ UNCHANGED <<connectCalls, disconnectCalls>>
            /\ (pc[t] = "close_lock" /\ pc'[t] # "close_lock" /\ ~connected) =>
                   /\ ~connected'
                   /\ pc'[t] = "idle"
                   /\ result'[t] = "ok"
                   /\ UNCHANGED <<connectCalls, disconnectCalls>>]_vars
    /\ [](  (closeCalls = 0 /\ connectOk = connectCalls /\ started >= 1
                /\ \A t \in Tasks : pc[t] \in {"idle", "body"})
            => connectCalls = 1)
    /\ [](connectCalls = 0 => disconnectCalls = 0)

C4_Witness ==
    /\ \E t \in Tasks :
          op[t] = "initialize" /\ pc[t] = "idle" /\ result[t] = "ok" /\ hook[t] = "none"
    /\ \E t \in Tasks :
          op[t] = "close" /\ pc[t] = "idle" /\ result[t] = "ok" /\ hook[t] = "none"

\* C5: when the connect hook raises, initialize() raises ConnectionError to
\* its caller and the driver is still Disconnected.
C5_ConnectFailure ==
    [][\A t \in Tasks :
          ConnectHookRaised(t) =>
              (result'[t] = "ConnectionError" /\ pc'[t] = "idle" /\ ~connected')]_vars

C5_Witness ==
    \E t \in Tasks :
        /\ op[t] = "initialize" /\ pc[t] = "idle"
        /\ hook[t] \in HookErrors /\ result[t] = "ConnectionError"
        /\ ~connected

\* C6: a close() whose disconnect hook raised returns normally with the lock
\* released, and every close() or initialize() call started after it runs to
\* completion.
C6_CloseFailureNeverBlocks ==
    /\ [][\A t \in Tasks :
            CloseHookRaised(t) =>
                /\ pc'[t] = "idle" /\ result'[t] = "ok"
                /\ \A i \in DOMAIN lockQ' : lockQ'[i] # t]_vars
    /\ \A t \in Tasks :
          (afterFail[t] /\ pc[t] # "idle") ~> (pc[t] = "idle")

C6_Witness ==
    /\ closeFailed
    /\ \E t \in Tasks :
          afterFail[t] /\ op[t] = "close" /\ pc[t] = "idle" /\ result[t] = "ok"
    /\ \E t \in Tasks :
          afterFail[t] /\ op[t] = "initialize" /\ pc[t] = "idle" /\ result[t] # "none"

\* the caller of execute_with_retry was not cancelled
NotCancelled == outcome.err # Cancelled

\* C7: with max_retries = m >= 1, an operation that raised RetryableError on
\* every attempt was invoked exactly m times and the error raised to the
\* caller is the one raised by attempt m.
C7_RetryBound ==
    ( /\ rpc = "done" /\ max_retries >= 1 /\ NotCancelled
      /\ \A i \in DOMAIN history : history[i].kind = "RetryableError" )
    => /\ calls = max_retries
       /\ Len(history) = max_retries
       /\ outcome = Raised(Err("RetryableError", max_retries))

C7_Witness ==
    /\ rpc = "done" /\ max_retries = 3 /\ calls = 3
    /\ \A i \in DOMAIN history : history[i].kind = "RetryableError"
    /\ outcome = Raised(Err("RetryableError", 3))

\* C8: an attempt that raises an error other than RetryableError is the last
\* one: that very error is raised to the caller and no wait follows it.
C8_NonRetryablePropagates ==
    \A i \in DOMAIN history :
        history[i].kind \notin {"ok", "RetryableError"} =>
            /\ i = Len(history)
            /\ calls = i
            /\ rpc = "done"
            /\ outcome = Raised(Err(history[i].kind, i))
            /\ Len(sleeps) = i - 1

C8_Witness ==
    /\ rpc = "done" /\ calls = 1 /\ max_retries >= 2
    /\ history = <<[kind |-> "ValueError", id |-> 1, val |-> "none"]>>
    /\ outcome = Raised(Err("ValueError", 1))

\* C9: an attempt k that succeeds after k-1 RetryableErrors is the last one:
\* its result is returned after exactly k invocations.
C9_SuccessAfterRetries ==
    \A k \in DOMAIN history :
        history[k].kind = "ok" =>
            /\ k = Len(history)
            /\ k <= max_retries
            /\ calls = k
            /\ rpc = "done"
            /\ outcome = Returned(history[k].val)
            /\ \A j \in 1..(k - 1) : history[j].kind = "RetryableError"

C9_Witness ==
    /\ rpc = "done" /\ calls = 3 /\ Len(history) = 3
    /\ history[3].kind = "ok"
    /\ outcome = Returned(history[3].val)

\* C10: the i-th wait, the one before attempt n = i + 1, lasts
\* base_delay * 2^(n-2); exactly n - 1 waits precede attempt n, and no wait
\* follows the last failed attempt.
C10_Backoff ==
    /\ \A i \in DOMAIN sleeps : sleeps[i] = retry_delay * (2 ^ ((i + 1) - 2))
    /\ rpc = "start" => sleeps = <<>>
    /\ rpc = "calling" => Len(sleeps) = calls - 1
    /\ rpc = "sleeping" => (Len(sleeps) = calls /\ calls < max_retries)
    /\ (rpc = "done" /\ NotCancelled) => Len(sleeps) = (IF calls = 0 THEN 0 ELSE calls - 1)
    /\ Len(sleeps) <= (IF max_retries >= 1 THEN max_retries - 1 ELSE 0)

C10_Witness ==
    /\ rpc = "done" /\ NotCancelled
    /\ calls = 4 /\ retry_delay = 3
    /\ sleeps = <<3, 6, 12>>
    /\ history[4].kind = "RetryableError"

\* C11: a cancellation that arrives during a backoff wait ends the retry loop:
\* the operation is not invoked again and the caller gets the cancellation,
\* not the last RetryableError nor the retries-exhausted error.
C11_CancelDuringBackoff ==
    [][(rpc = "sleeping" /\ rpc' # "calling") =>
          /\ rpc' = "done"
          /\ outcome' = Raised(Cancelled)
          /\ outcome'.err # last_error
          /\ outcome'.err # AllRetriesFailed
          /\ UNCHANGED <<calls, history, sleeps>>]_vars

C11_Witness ==
    /\ rpc = "done"
    /\ outcome = Raised(Cancelled)
    /\ Len(sleeps) = calls /\ calls >= 2
    /\ last_error = Err("RetryableError", calls)

\* ---- Cache properties

\* this step is a call of cache operation o
CacheStep(o) == cops' # cops /\ clast'.op = o
\* the pool a key belongs to, before the step
PoolFor(k) == pools[PoolOf(Prefix(k))]
\* the same pool after the step
PoolAfter(k) == pools'[PoolOf(Prefix(k))]
\* the keys a get would find in pool p
LiveKeys(pool, t) == {pool[i].key : i \in {j \in DOMAIN pool : pool[j].exp > t}}
Counter(st) == st.hits + st.misses + st.errors

\* C12: on an enabled cache every get adds exactly 1 to exactly one counter:
\* a key that is not live gives absent and one more miss, a live key gives its
\* value and one more hit; right after set(k, v) the key is live with value v,
\* right after a delete that returned true it is not, and delete returns true
\* exactly for a live key; set and delete leave hits and misses alone.
C12_HitMissAccounting ==
    [][ /\ (CacheStep("get") /\ enabled) =>
              /\ Counter(stats') = Counter(stats) + 1
              /\ stats'.hits >= stats.hits /\ stats'.misses >= stats.misses
              /\ stats'.errors >= stats.errors
              /\ stats'.evictions = stats.evictions
              /\ ~clast'.fault =>
                    IF clast'.key \in LiveKeys(PoolFor(clast'.key), now)
                    THEN /\ stats'.hits = stats.hits + 1
                         /\ clast'.ret = EntryOf(PoolFor(clast'.key), clast'.key).val
                    ELSE /\ stats'.misses = stats.misses + 1
                         /\ clast'.ret = "none"
        /\ (CacheStep("set") /\ enabled /\ ~clast'.fault) =>
              /\ clast'.key \in LiveKeys(PoolAfter(clast'.key), now')
              /\ EntryOf(PoolAfter(clast'.key), clast'.key).val = clast'.arg
        /\ (CacheStep("delete") /\ enabled /\ ~clast'.fault) =>
              /\ clast'.ret = (IF clast'.key \in LiveKeys(PoolFor(clast'.key), now)
                               THEN "true" ELSE "false")
              /\ clast'.key \notin LiveKeys(PoolAfter(clast'.key), now')
        /\ (CacheStep("set") \/ CacheStep("delete")) =>
              (stats'.hits = stats.hits /\ stats'.misses = stats.misses) ]_vars

C12_Witness ==
    /\ enabled
    /\ clast = Called("get", <<"traces", "a">>, "none", FALSE)
    /\ stats.hits = 1 /\ stats.misses = 1 /\ stats.errors = 0

\* C13: on a disabled cache get and set change neither the pools nor the
\* counters and get returns absent; the pools stay empty.
C13_DisabledTransparent ==
    /\ [][(~enabled /\ (CacheStep("get") \/ CacheStep("set"))) =>
             /\ UNCHANGED <<pools, stats>>
             /\ clast'.ret = "none"]_vars
    /\ [](~enabled =>
             /\ \A p \in PoolNames : pools[p] = <<>>
             /\ stats.hits = 0 /\ stats.misses = 0 /\ stats.evictions = 0)

C13_Witness ==
    /\ ~enabled
    /\ cops = 3
    /\ clast = Called("get", <<"traces", "a">>, "none", FALSE)
    /\ stats = [hits |-> 0, misses |-> 0, evictions |-> 0, errors |-> 0]

\* C14: no pool holds more entries than max_size // 3; a set of a key that is
\* not in a pool at capacity displaces exactly one entry, leaves the pool at
\* capacity and adds exactly 1 to evictions; below capacity it displaces
\* nothing and leaves evictions unchanged.
C14_CapacityAndEvictions ==
    /\ [](\A p \in PoolNames : Len(pools[p]) <= max_size \div 3)
    /\ [][(CacheStep("set") /\ enabled /\ ~clast'.fault
             /\ clast'.key \notin LiveKeys(PoolFor(clast'.key), now)) =>
            LET k == clast'.key
                before == LiveKeys(PoolFor(k), now)
                after == LiveKeys(PoolAfter(k), now')
            IN  IF Cardinality(before) = max_size \div 3
                THEN /\ Cardinality(before \ after) = 1
                     /\ Cardinality(after) = max_size \div 3
                     /\ stats'.evictions = stats.evictions + 1
                ELSE /\ before \subseteq after
                     /\ Cardinality(after) = Cardinality(before) + 1
                     /\ stats'.evictions = stats.evictions]_vars

C14_Witness ==
    /\ max_size \div 3 = 2
    /\ cops = 3
    /\ clast.op = "set" /\ ~clast.fault
    /\ Cardinality(LiveKeys(pools["traces"], now)) = 2
    /\ stats.evictions = 1

C17_TtlArgumentHonoured ==
    \A p \in PoolNames : \A i \in DOMAIN pools[p] :
        LET e == pools[p][i] IN
        e.ttl # <<>> =>
            /\ now - e.at < e.ttl[1] => e.key \in LiveKeys(pools[p], now)
            /\ now - e.at > e.ttl[1] => e.key \notin LiveKeys(pools[p], now)

\* C18: an entry stored by set without a ttl is live while its age is below
\* the TTL of its own pool and is not live once that TTL has elapsed.
C18_PoolTtl ==
    \A p \in PoolNames : \A i \in DOMAIN pools[p] :
        LET e == pools[p][i] IN
        e.ttl = <<>> =>
            /\ p = PoolOf(Prefix(e.key))
            /\ now - e.at < ttls[p] =>
                  (Contains(pools[p], e.key, now) /\ EntryOf(pools[p], e.key) = e)
            /\ now - e.at >= ttls[p] => ~Contains(pools[p], e.key, now)

C18_Witness ==
    /\ \E i \in DOMAIN pools["logs"] :
          pools["logs"][i].ttl = <<>> /\ now - pools["logs"][i].at = ttls["logs"]
    /\ \E i \in DOMAIN pools["traces"] :
          pools["traces"][i].ttl = <<>> /\ now - pools["traces"][i].at = ttls["logs"]
    /\ clast = Called("get", <<"logs", "a">>, "none", FALSE)
    /\ stats.misses = 1

\* ---- cache_key wrapper properties

\* caller c starts a call of the wrapped operation / its underlying operation finishes
WrapStarts(c) == wcalls' # wcalls /\ wlast' = c
WrapEnds(c) == wrap[c].pc = "inF" /\ wrap'[c].pc = "done"
\* key k is live in the cache the wrapper uses
LiveInCache(k) == hasCache /\ enabled /\ Contains(PoolFor(k), k, now)

\* C16: a call of a cache-wrapped operation whose derived key is live in the
\* cache returns the cached value without invoking the underlying operation;
\* any other call invokes it exactly once and returns its result, and the
\* result is stored under the derived key exactly when it is not None: a
\* None result leaves the pools as they were, so the key stays absent and
\* the next call invokes the operation again.
C16_WrappedOperation ==
    [][\A c \in Callers :
        /\ WrapStarts(c) =>
              LET k == wrap'[c].key IN
              IF LiveInCache(k)
              THEN /\ wrap'[c].pc = "done"
                   /\ wrap'[c].f = 0
                   /\ wrap'[c].ret = EntryOf(PoolFor(k), k).val
              ELSE /\ wrap'[c].pc = "inF"
                   /\ wrap'[c].f = 1
        /\ (WrapEnds(c) /\ wrap'[c].fres # "raised") =>
              LET k == wrap[c].key
                  r == wrap'[c].fres
              IN
              /\ wrap'[c].f = 1
              /\ wrap'[c].ret = r
              /\ (r # "none" /\ hasCache /\ enabled) =>
                    /\ Contains(PoolAfter(k), k, now)
                    /\ EntryOf(PoolAfter(k), k).val = r
              /\ (r = "none") => pools' = pools
    ]_vars

\* a call got None from the underlying operation, the next call of the same
\* key invoked it again and stored its value, and another caller then got
\* that value from the cache without invoking the operation
C16_Witness ==
    \E c, d \in Callers :
        /\ c # d
        /\ wrap[d].pc = "done" /\ wrap[d].f = 1 /\ wrap[d].fres \in CacheValues
        /\ wrap[d].again
        /\ wrap[c].pc = "done" /\ wrap[c].f = 0 /\ wrap[c].key = wrap[d].key
        /\ wrap[c].ret = wrap[d].fres

\* C29 as stated: on an enabled cache no two callers are inside the underlying
\* operation for the same derived key at the same time
C29_SingleInvocation ==
    (hasCache /\ enabled) =>
        \A c, d \in Callers :
            (c # d /\ wrap[c].pc = "inF" /\ wrap[d].pc = "inF") => wrap[c].key # wrap[d].key

\* C29: when a caller starts a call whose derived key another caller has
\* invoked the underlying operation for, on an enabled cache, it invokes the
\* operation itself (once) unless the key is live in the cache by then, in
\* which case it returns the cached value without invoking it; callers that
\* start before the first result is stored therefore all invoke the operation.
C29_InvokedUnlessStored ==
    [][\A c, d \in Callers :
        (c # d /\ WrapStarts(c) /\ hasCache /\ enabled
              /\ wrap[d].f = 1 /\ wrap[d].key = wrap'[c].key) =>
            LET k == wrap'[c].key IN
            IF LiveInCache(k)
            THEN /\ wrap'[c].f = 0
                 /\ wrap'[c].pc = "done"
                 /\ wrap'[c].ret = EntryOf(PoolFor(k), k).val
            ELSE /\ wrap'[c].f = 1
                 /\ wrap'[c].pc = "inF"
                 /\ (wrap[d].pc = "inF" => wrap'[d].pc = "inF")
    ]_vars

\* two callers are inside the underlying operation for the same key
C29_Witness ==
    \E c, d \in Callers :
        /\ c # d /\ hasCache /\ enabled
        /\ wrap[c].pc = "inF" /\ wrap[d].pc = "inF"
        /\ wrap[c].key = wrap[d].key
        /\ wrap[c].f = 1 /\ wrap[d].f = 1

\* ---- DriverRegistry properties

RegistryStep(o) == rops' # rops /\ rlast'.op = o

\* C19: register of a name that is already registered raises the duplicate
\* error and leaves the registry as it was: get and get_info of the name give
\* the class and metadata registered first, and list() gives the same names.
C19_DuplicateRejected ==
    [][(RegistryStep("register") /\ Registered(drivers, rlast'.name)) =>
          /\ rlast'.err = "ValueError: already registered"
          /\ drivers' = drivers
          /\ InfoOf(drivers', rlast'.name) = InfoOf(drivers, rlast'.name)
          /\ ListOf(drivers') = ListOf(drivers)
    ]_vars

\* a second register of a name, with another class, was rejected
C19_Witness ==
    /\ rlast.op = "register"
    /\ rlast.err = "ValueError: already registered"
    /\ Registered(drivers, rlast.name)
    /\ rlast.arg \in DriverClasses
    /\ InfoOf(drivers, rlast.name).driver_class # rlast.arg

\* C20: get, get_info and unregister of a name that is not registered raise
\* KeyError and leave the registry unchanged; a successful unregister removes
\* the name from list() and from lookup; a name becomes registered only by a
\* register call of that name, and register of an absent name with a driver
\* class succeeds, also after the name was unregistered.
C20_NotFound ==
    [][/\ \A o \in {"get", "get_info", "unregister"} :
            (RegistryStep(o) /\ ~Registered(drivers, rlast'.name)) =>
                /\ rlast'.err = "KeyError"
                /\ drivers' = drivers
       /\ (RegistryStep("unregister") /\ Registered(drivers, rlast'.name)) =>
                /\ rlast'.err = "none"
                /\ ~Registered(drivers', rlast'.name)
                /\ \A i \in DOMAIN ListOf(drivers') : ListOf(drivers')[i] # rlast'.name
                /\ Remove(drivers', rlast'.name) = Remove(drivers, rlast'.name)
       /\ \A n \in RegNames :
            (~Registered(drivers, n) /\ Registered(drivers', n)) =>
                RegistryStep("register") /\ rlast'.name = n
       /\ (RegistryStep("register") /\ ~Registered(drivers, rlast'.name)
             /\ IsSubclass(rlast'.arg)) =>
                /\ rlast'.err = "none"
                /\ InfoOf(drivers', rlast'.name).driver_class = rlast'.arg
    ]_vars

\* a name that was unregistered has been registered again
C20_Witness ==
    /\ rlast.op = "register"
    /\ rlast.err = "none"
    /\ rlast.name \in removed
    /\ Registered(drivers, rlast.name)

\* ---- execute_with_retry with no attempts

\* C30: with max_retries <= 0 the operation is never invoked, no wait is
\* made, and the caller gets BackendError("All retries failed").
C30_NoAttempts ==
    (max_retries <= 0) =>
        /\ calls = 0
        /\ history = <<>>
        /\ sleeps = <<>>
        /\ rpc = "done" => outcome = Raised(AllRetriesFailed)

C30_Witness ==
    /\ rpc = "done" /\ max_retries <= 0
    /\ outcome = Raised(AllRetriesFailed)

\* ---- lifecycle: mutual exclusion of the hooks

\* task t is inside _connect or _disconnect
InHook(t) == pc[t] \in {"connecting", "disconnecting"}

\* C26: at most one task is inside a hook (_connect or _disconnect) of the
\* driver at any time, the task inside a hook is the holder of the lock, and
\* _connected is changed only by the holder of the lock as it leaves its hook.
C26_HooksNeverOverlap ==
    /\ [](\A t, u \in Tasks : (InHook(t) /\ InHook(u)) => t = u)
    /\ [](\A t \in Tasks : InHook(t) => (lockQ # <<>> /\ Head(lockQ) = t))
    /\ [][connected' # connected =>
             \E t \in Tasks : lockQ # <<>> /\ Head(lockQ) = t /\ InHook(t) /\ ~InHook(t)'
       ]_vars

\* a close() is inside _disconnect while a concurrent initialize() waits for the lock
C26_Witness ==
    \E t, u \in Tasks :
        /\ pc[t] = "disconnecting"
        /\ pc[u] = "init_lock" /\ op[u] = "initialize"
        /\ Len(lockQ) = 2 /\ Head(lockQ) = t

\* ---- Cache: clear, pools of keys, evictions

\* C22: clear(prefix) with the name of a pool empties that pool and leaves the
\* other two pools and the four counters unchanged; clear() without a prefix
\* empties the three pools.
C22_ClearOnePool ==
    [][(CacheStep("clear") /\ ~clast'.fault) =>
          IF clast'.key = <<>>
          THEN \A p \in PoolNames : pools'[p] = <<>>
          ELSE \A p \in PoolNames :
                  clast'.key = <<p>> =>
                      /\ pools'[p] = <<>>
                      /\ \A q \in PoolNames \ {p} : pools'[q] = pools[q]
                      /\ stats' = stats
    ]_vars

\* clear("logs") was called while the trace pool held an entry, which is still there
C22_Witness ==
    /\ clast = Called("clear", <<"logs">>, "none", FALSE)
    /\ enabled
    /\ pools["logs"] = <<>>
    /\ pools["traces"] # <<>>
    /\ stats = [hits |-> 0, misses |-> 0, evictions |-> 0, errors |-> 0]

\* the pool selected by the first segment of a key, as the claim states it
NamedPool(k) == IF k[1] \in PoolNames THEN k[1] ELSE "traces"

\* C23: the text before the first ':' of a key selects its pool: traces, logs
\* and metrics their own, anything else (also a key without ':') the trace
\* pool; every entry is held by the pool of its key, and get, set and delete
\* of a key leave the other two pools as they were.
C23_OnePoolPerKey ==
    /\ [](\A p \in PoolNames : \A i \in DOMAIN pools[p] : NamedPool(pools[p][i].key) = p)
    /\ [][(CacheStep("get") \/ CacheStep("set") \/ CacheStep("delete")) =>
             \A q \in PoolNames \ {NamedPool(clast'.key)} : pools'[q] = pools[q]
       ]_vars

\* keys with an unknown prefix and without ':' are both held by the trace pool
C23_Witness ==
    /\ \E i \in DOMAIN pools["traces"] : pools["traces"][i].key = <<"other", "b">>
    /\ \E i \in DOMAIN pools["traces"] : pools["traces"][i].key = <<"plain">>
    /\ pools["logs"] # <<>>

\* C28: every set adds to evictions the number of entries it displaced from
\* the pool for lack of capacity; a set that overwrites a key already in a
\* full pool displaces nothing and leaves evictions unchanged.
C28_EvictionsCountDisplaced ==
    [][(CacheStep("set") /\ enabled /\ ~clast'.fault) =>
          LET k == clast'.key
              before == LiveKeys(pools[NamedPool(k)], now)
              after == LiveKeys(pools'[NamedPool(k)], now')
          IN  /\ stats'.evictions = stats.evictions + Cardinality(before \ after)
              /\ (k \in before /\ Cardinality(before) = max_size \div 3) =>
                    stats'.evictions = stats.evictions
    ]_vars

\* C24: get_stats returns the enabled flag, the four counters, the number of
\* live entries of each pool and the capacity of each pool, and changes
\* neither the counters nor what the pools hold: every key that was live is
\* live with the same value, in the same order of use.
C24_StatsSnapshot ==
    [][CacheStep("get_stats") =>
          LET s == clast'.snap IN
          /\ s.enabled = enabled
          /\ s.stats.hits = stats.hits /\ s.stats.misses = stats.misses
          /\ s.stats.evictions = stats.evictions /\ s.stats.errors = stats.errors
          /\ \A p \in PoolNames :
                /\ s.sizes[p] = Cardinality(LiveKeys(pools[p], now))
                /\ s.max_sizes[p] = max_size \div 3
                /\ Expire(pools'[p], now') = Expire(pools[p], now)
          /\ stats' = stats
          /\ enabled' = enabled
    ]_vars

\* get_stats was called at a time when the trace pool held its only live entry
C24_Witness ==
    /\ clast.op = "get_stats"
    /\ clast.snap.sizes = [traces |-> 1, logs |-> 0, metrics |-> 0]
    /\ clast.snap.stats.errors = 0
    /\ now >= 2
    /\ pools["traces"] # <<>>
    /\ stats.evictions = 0

\* ---- auto_register_drivers properties

\* the module that gives driver name n its class: the last importable one
Defines(scan, i, n) ==
    /\ scan[i].imp = "ok" /\ scan[i].name = n
    /\ \A j \in DOMAIN scan : (j > i /\ scan[j].imp = "ok") => scan[j].name # n
\* the names that auto-registration has to register: discovered, not yet
\* registered, and accepted by register
ToRegister(scan, d) ==
    {scan[i].name : i \in {j \in DOMAIN scan :
        /\ Defines(scan, j, scan[j].name)
        /\ ~Registered(d, scan[j].name)
        /\ scan[j].reg = "ok"}}

\* C21: auto-registration raises nothing; a registration that existed is
\* kept as it was and its name is not returned; every other discovered driver
\* whose registration does not fail is registered with its class, whatever
\* imports or registrations failed before it; the list returned holds the
\* newly registered names, each once.
C21_AutoRegister ==
    [][RegistryStep("auto_register") =>
          LET scan == rlast'.scan
              ret == rlast'.names
              new == ToRegister(scan, drivers)
          IN
          /\ rlast'.err = "none"
          /\ \A i \in DOMAIN drivers :
                /\ InfoOf(drivers', drivers[i].name) = drivers[i].info
                /\ \A j \in DOMAIN ret : ret[j] # drivers[i].name
          /\ {ret[j] : j \in DOMAIN ret} = new
          /\ Len(ret) = Cardinality(new)
          /\ {drivers'[i].name : i \in DOMAIN drivers'}
                = {drivers[i].name : i \in DOMAIN drivers} \cup new
          /\ \A i \in DOMAIN scan :
                (Defines(scan, i, scan[i].name) /\ scan[i].name \in new) =>
                    InfoOf(drivers', scan[i].name).driver_class = scan[i].cls
    ]_vars

\* a scan met a registered name, a module that cannot be imported and a
\* driver whose registration fails, and registered the driver that followed
C21_Witness ==
    /\ rlast.op = "auto_register"
    /\ rlast.names = <<"z">>
    /\ Len(rlast.scan) = 3
    /\ rlast.scan[1].name = "x"
    /\ rlast.scan[2].name = "y" /\ rlast.scan[2].reg = "raises"
    /\ rlast.scan[3].name = "z"
    /\ ListOf(drivers) = <<"x", "z">>

\* dict.__eq__: the same fields with the same values, in whatever order
RECURSIVE SameStructure(_, _)
SameStructure(a, b) ==
    /\ a.tag = b.tag
    /\ a.text = b.text
    /\ {a.items[i][1] : i \in DOMAIN a.items} = {b.items[j][1] : j \in DOMAIN b.items}
    /\ \A i \in DOMAIN a.items, j \in DOMAIN b.items :
          a.items[i][1] = b.items[j][1] => SameStructure(a.items[i][2], b.items[j][2])

\* C25: for one prefix, two parameter structures have the same key exactly
\* when they have the same fields and values, whatever the insertion order
\* at any depth; the key is the prefix followed by the hash
C25_KeyDerivation ==
    derived.prefix # "none" =>
        /\ Prefix(derived.ka) = derived.prefix
        /\ SameStructure(derived.a, derived.b) <=> derived.ka = derived.kb

\* ---- concurrent cache calls properties

====
